---- MODULE Spec2Model ----
(***************************************************************************)
(* Model of testsuite/smoke-test/src/upgrade.rs: the two upgrade flows     *)
(* test_upgrade_flow (scripts run directly by the root account) and        *)
(* test_upgrade_flow_multi_step (proposal, votes, voting window, then one  *)
(* verify / execute round per script).                                     *)
(*                                                                         *)
(* Steps are numbered 1..n here (TLA+ sequences); step k is the spec's     *)
(* step k-1.  A hash value is a natural number, 0 standing for the empty   *)
(* (absent) hash.  The ledger, the CLI's verify-proposal command and the   *)
(* script generator live outside upgrade.rs; their behaviour is taken from *)
(* the design document.                                                    *)
(***************************************************************************)
EXTENDS Integers, Sequences, FiniteSets, TLC

\* ------------------------------------------------------------- bounds
MaxSteps == 3
MaxTamper == 1
MaxSeq0 == 1
TickSecs == 15
MaxTime == 30
\* Most scripts a release configuration yields in the runs that look at
\* the order of the sorted paths.
MaxSortSteps == 11

\* ---------------------------------------------------------- constants
\* genesis_config.voting_duration_secs = 30
VotingDurationSecs == 30
\* thread::sleep(Duration::from_secs(30))
SleepSecs == 30
\* while i < 2
NumVoters == 2
\* let mut validator_cli_index = 0;   (the binding the step loop reads)
validator_cli_index == 0

VARIABLES
    test,          \* "flow" | "multi": which test function runs
    pc,            \* position in the test function
    outcome,       \* "running" | "Completed" | the reason of the panic
    abortStep,     \* the step at which the run panicked (0: not in a step)
    n,             \* number of generated upgrade scripts
    files,         \* files[k]: the bytes now on disk at the k-th sorted path
    cur,           \* index of the script the for loop is at
    i,             \* the while loop's i
    inner_index,   \* the validator_cli_index bound inside the while loop
    localSeq,      \* root_account().sequence_number (local copy)
    ledgerSeq,     \* on-chain sequence number per account
    txs,           \* every transaction handed to the ledger, in order
    now,           \* wall clock, seconds
    sleepStart,    \* the time thread::sleep was called (-1: not yet)
    proposal,      \* the ledger's proposal 0
    approvedHash,  \* the ledger's approved execution hash of proposal 0
    executed,      \* the steps the ledger has executed, in order
    resp,          \* verify_proposal_response of the current iteration
    readHash,      \* approved_execution_hash read at line 298
    verifiedBytes, \* verifiedBytes[k]: the bytes verify read for step k
    addHashCalls,  \* calls of add_approved_script_hash_script so far
    tampers        \* substitutions of script bytes so far

vars ==
    << test, pc, outcome, abortStep, n, files, cur, i, inner_index, localSeq,
       ledgerSeq, txs, now, sleepStart, proposal, approvedHash, executed,
       resp, readHash, verifiedBytes, addHashCalls, tampers >>

\* ------------------------------------------------------- pure helpers
PayloadVals == MaxSteps + 2

ByteVals == 0 .. (PayloadVals - 1)

\* "--sender-account", "0xA550C18"
Root == 173345816

Accounts == {Root} \cup (0 .. (2 * NumVoters - 1))

NoResp == [verified |-> FALSE, computed_hash |-> <<>>, onchain_hash |-> <<>>]

NoProposal == [created |-> FALSE, execution_hash |-> 0, expiry |-> 0, votes |-> {}]

\* The canonical hash of script bytes <<payload, next>>: injective on
\* the two bytes (a collision-free digest), never 0 (0 is the empty hash).
CanonicalHash(bytes) == 1 + bytes[1] + PayloadVals * bytes[2]

\* hex::encode of a hash value: four hex digits, the empty hash encodes
\* to the empty string.
HexEncode(h) ==
    IF h = 0 THEN <<>>
    ELSE << (h \div 4096) % 16, (h \div 256) % 16, (h \div 16) % 16, h % 16 >>

\* The file name the generator gives its k-th script: the decimal digits of
\* the script's ordinal k-1 (the naming convention that encodes the order).
PathOf(k) == IF k - 1 < 10 THEN << k - 1 >> ELSE << (k - 1) \div 10, (k - 1) % 10 >>

\* Ord for paths: byte-wise lexicographic, a proper prefix first.
RECURSIVE PathLess(_, _)
PathLess(a, b) ==
    IF a = <<>> THEN b # <<>>
    ELSE IF b = <<>> THEN FALSE
    ELSE IF a[1] # b[1] THEN a[1] < b[1]
    ELSE PathLess(Tail(a), Tail(b))

\* scripts.sort(): the generator ordinals 1..m in the order of their paths.
RECURSIVE SortByPathDescending(_)
SortByPathDescending(S) ==
    IF S = {} THEN <<>>
    ELSE LET k == CHOOSE x \in S : \A y \in S \ {x} : PathLess(PathOf(y), PathOf(x))
         IN  << k >> \o SortByPathDescending(S \ {k})

RECURSIVE SortByPath(_)
SortByPath(S) ==
    IF S = {} THEN <<>>
    ELSE LET k == CHOOSE x \in S : \A y \in S \ {x} : PathLess(PathOf(x), PathOf(y))
         IN  << k >> \o SortByPath(S \ {k})

\* The generator's k-th script of m: its payload, and (multi-step only) the
\* hash of the script generated after it, 0 for the last one.
RECURSIVE GenScript(_, _, _)
GenScript(k, m, multi) ==
    << k - 1,
       IF multi /\ k < m THEN CanonicalHash(GenScript(k + 1, m, multi)) ELSE 0 >>

\* The script bytes found at the sorted paths, as generated.
Scripts(m, multi) ==
    LET order == SortByPath(1 .. m)
    IN  [j \in 1 .. m |-> GenScript(order[j], m, multi)]

IsMulti == test = "multi"

Orig(k) == Scripts(n, IsMulti)[k]

\* let first_script_path = PathBuf::from(scripts.get(0).unwrap());
FirstScriptLast(fs) == fs[Len(fs)]

FirstScript(fs) == fs[1]

\* *root_account().sequence_number_mut() += 1
IncrementSequenceNumberTwice(s) == s + 2

IncrementSequenceNumberNot(s) == s

IncrementSequenceNumber(s) == s + 1

\* let mut add_approved_execution_hash = true;   (never assigned again)
add_approved_execution_hash == TRUE

\* verify-proposal: hash the script at the path, read the on-chain hash,
\* compare the two as hex strings.
VerifyProposalAlways(bytes, onchain) ==
    [verified |-> TRUE,
     computed_hash |-> HexEncode(CanonicalHash(bytes)),
     onchain_hash |-> HexEncode(onchain)]

VerifyProposal(bytes, onchain) ==
    [verified |-> HexEncode(CanonicalHash(bytes)) = HexEncode(onchain),
     computed_hash |-> HexEncode(CanonicalHash(bytes)),
     onchain_hash |-> HexEncode(onchain)]

\* The ledger resolves a step of proposal 0 only when the proposal has all
\* its votes, its voting window is over and the script's hash is the
\* approved one.
LedgerAccepts(bytes) ==
    /\ proposal.created
    /\ Cardinality(proposal.votes) = NumVoters
    /\ now >= proposal.expiry
    /\ approvedHash # 0
    /\ CanonicalHash(bytes) = approvedHash

\* thread::sleep returns once the duration has passed.
SleepElapsedEarly == TRUE

SleepElapsed == now >= sleepStart + SleepSecs

Tx(sender, seq, kind, step, ok, verified) ==
    [sender |-> sender, seq |-> seq, kind |-> kind, step |-> step, ok |-> ok,
     verified |-> verified]

Terminal == pc \in {"done", "aborted"}

\* -------------------------------------------------------------- Init
Init ==
    /\ test \in {"flow", "multi"}
    /\ pc = "gas_script"
    /\ outcome = "running"
    /\ abortStep = 0
    /\ n = 0
    /\ files = <<>>
    /\ cur = 0
    /\ i = 0
    /\ inner_index = -1
    /\ localSeq \in 0 .. MaxSeq0
    /\ ledgerSeq = [a \in Accounts |-> IF a = Root THEN localSeq ELSE 0]
    /\ txs = <<>>
    /\ now = 0
    /\ sleepStart = -1
    /\ proposal = NoProposal
    /\ approvedHash = 0
    /\ executed = <<>>
    /\ resp = NoResp
    /\ readHash = 0
    /\ verifiedBytes = <<>>
    /\ addHashCalls = 0
    /\ tampers = 0

\* ----------------------------------------------------------- helpers
\* A panic (a failed assert!, an unwrap() of an error) ends the test.
Abort(reason, step) ==
    /\ pc' = "aborted"
    /\ outcome' = reason
    /\ abortStep' = step

\* The transaction is handed to the ledger; an accepted one consumes the
\* sender's on-chain sequence number.
Submit(sender, seq, kind, step, ok, verified) ==
    /\ txs' = Append(txs, Tx(sender, seq, kind, step, ok, verified))
    /\ ledgerSeq' = IF ok THEN [ledgerSeq EXCEPT ![sender] = @ + 1] ELSE ledgerSeq

\* What the for loop does after a step whose command failed: the assert! /
\* unwrap() panics.
AfterFailedStepSkip(step) ==
    /\ pc' = IF step = n
             THEN (IF IsMulti THEN "done" ELSE "publish")
             ELSE (IF IsMulti THEN "verify" ELSE "run_script")
    /\ outcome' = IF step = n /\ IsMulti THEN "Completed" ELSE outcome
    /\ cur' = step + 1
    /\ abortStep' = abortStep

\* A variant of AfterFailedStep that sends the same script again.
AfterFailedStepRetry(step) ==
    /\ pc' = pc
    /\ cur' = step
    /\ UNCHANGED << outcome, abortStep >>

AfterFailedStep(step) ==
    /\ Abort("SubmissionError", step)
    /\ cur' = cur

\* assert!(verify_proposal_response.verified)
AssertVerifiedSkipped(r) == TRUE

AssertVerified(r) == r.verified

\* ----------------------------------------------- both tests: lines 57-111
\* run-script of the gas schedule script by the root account, then += 1.
GasScript ==
    /\ pc = "gas_script"
    /\ \E ok \in BOOLEAN :
        /\ Submit(Root, ledgerSeq[Root], "gas", 0, ok, TRUE)
        /\ IF ok
           THEN /\ localSeq' = IncrementSequenceNumber(localSeq)
                /\ pc' = "generate"
                /\ UNCHANGED << outcome, abortStep >>
           ELSE /\ Abort("SubmissionError", 0)
                /\ UNCHANGED localSeq
    /\ UNCHANGED << test, n, files, cur, i, inner_index, now, sleepStart, proposal,
                    approvedHash, executed, resp, readHash, verifiedBytes,
                    addHashCalls, tampers >>

\* generate_release_proposal_scripts, read_dir, scripts.sort(), for a
\* release configuration that yields at most max scripts.
GenerateUpTo(max) ==
    /\ pc = "generate"
    /\ \E m \in 1 .. max :
        /\ n' = m
        /\ files' = Scripts(m, IsMulti)
        /\ verifiedBytes' = [k \in 1 .. m |-> <<>>]
    /\ cur' = 1
    /\ pc' = IF IsMulti THEN "setup_voter" ELSE "run_script"
    /\ UNCHANGED << test, outcome, abortStep, i, inner_index, localSeq, ledgerSeq,
                    txs, now, sleepStart, proposal, approvedHash, executed, resp,
                    readHash, addHashCalls, tampers >>

Generate == GenerateUpTo(MaxSteps)

\* ------------------------------------------ test_upgrade_flow: lines 113-147
\* One iteration of the for loop: run-script by the root account, assert
\* success, += 1.
RunScript ==
    /\ pc = "run_script"
    /\ \E ok \in BOOLEAN :
        /\ Submit(Root, ledgerSeq[Root], "script", cur, ok, TRUE)
        /\ IF ok
           THEN /\ executed' = Append(executed, cur)
                /\ localSeq' = IncrementSequenceNumber(localSeq)
                /\ cur' = cur + 1
                /\ pc' = IF cur = n THEN "publish" ELSE "run_script"
                /\ UNCHANGED << outcome, abortStep >>
           ELSE /\ AfterFailedStep(cur)
                /\ UNCHANGED << executed, localSeq >>
    /\ UNCHANGED << test, n, files, i, inner_index, now, sleepStart, proposal,
                    approvedHash, resp, readHash, verifiedBytes, addHashCalls,
                    tampers >>

\* publish_package signs with the local sequence number of the root account.
PublishPackage ==
    /\ pc = "publish"
    /\ \E up \in BOOLEAN :
        LET ok == up /\ localSeq = ledgerSeq[Root]
        IN  /\ Submit(Root, localSeq, "publish", 0, ok, TRUE)
            /\ IF ok
               THEN /\ localSeq' = localSeq + 1
                    /\ pc' = "check"
                    /\ UNCHANGED << outcome, abortStep >>
               ELSE /\ Abort("SubmissionError", 0)
                    /\ UNCHANGED localSeq
    /\ UNCHANGED << test, n, files, cur, i, inner_index, now, sleepStart, proposal,
                    approvedHash, executed, resp, readHash, verifiedBytes,
                    addHashCalls, tampers >>

\* check_create_mint_transfer: the network is still alive.
CheckCreateMintTransfer ==
    /\ pc = "check"
    /\ \E up \in BOOLEAN :
        LET ok == up /\ localSeq = ledgerSeq[Root]
        IN  /\ Submit(Root, localSeq, "transfer", 0, ok, TRUE)
            /\ IF ok
               THEN /\ localSeq' = localSeq + 1
                    /\ pc' = "done"
                    /\ outcome' = "Completed"
                    /\ UNCHANGED abortStep
               ELSE /\ Abort("SubmissionError", 0)
                    /\ UNCHANGED localSeq
    /\ UNCHANGED << test, n, files, cur, i, inner_index, now, sleepStart, proposal,
                    approvedHash, executed, resp, readHash, verifiedBytes,
                    addHashCalls, tampers >>

\* ------------------------------ test_upgrade_flow_multi_step: lines 244-279
\* fund_account(i) and init_validator_account: a new CLI account, whose
\* index shadows validator_cli_index inside the loop body.
SetupVoter ==
    /\ pc = "setup_voter"
    /\ i < NumVoters
    /\ \E ok \in BOOLEAN :
        IF ok
        THEN /\ inner_index' = NumVoters + i
             /\ pc' = "stake_owner"
             /\ UNCHANGED << outcome, abortStep >>
        ELSE /\ Abort("SubmissionError", 0)
             /\ UNCHANGED inner_index
    /\ UNCHANGED << test, n, files, cur, i, localSeq, ledgerSeq, txs, now,
                    sleepStart, proposal, approvedHash, executed, resp, readHash,
                    verifiedBytes, addHashCalls, tampers >>

\* cli.initialize_stake_owner(i, ..).await.unwrap()
InitializeStakeOwner ==
    /\ pc = "stake_owner"
    /\ \E ok \in BOOLEAN :
        /\ Submit(i, ledgerSeq[i], "stake", 0, ok, TRUE)
        /\ IF ok
           THEN pc' = "lockup" /\ UNCHANGED << outcome, abortStep >>
           ELSE Abort("SubmissionError", 0)
    /\ UNCHANGED << test, n, files, cur, i, inner_index, localSeq, now, sleepStart,
                    proposal, approvedHash, executed, resp, readHash,
                    verifiedBytes, addHashCalls, tampers >>

\* A variant of ProposalIteration that creates a proposal in every
\* iteration of the while loop.
ProposalIterationEvery(j) == TRUE
\* if i == 0 { .. create_proposal .. }
ProposalIteration(j) == j = 0

\* cli.increase_lockup(i).await.unwrap()
IncreaseLockup ==
    /\ pc = "lockup"
    /\ \E ok \in BOOLEAN :
        /\ Submit(i, ledgerSeq[i], "lockup", 0, ok, TRUE)
        /\ IF ok
           THEN /\ pc' = IF ProposalIteration(i) THEN "create_proposal" ELSE "vote"
                /\ UNCHANGED << outcome, abortStep >>
           ELSE Abort("SubmissionError", 0)
    /\ UNCHANGED << test, n, files, cur, i, inner_index, localSeq, now, sleepStart,
                    proposal, approvedHash, executed, resp, readHash,
                    verifiedBytes, addHashCalls, tampers >>

\* if i == 0 { cli.create_proposal(validator_cli_index, .., first_script_path,
\* ..).await.unwrap() }: the ledger records the proposal with the hash of
\* the first script and approves that hash.
CreateProposal ==
    /\ pc = "create_proposal"
    /\ \E ok \in BOOLEAN :
        /\ Submit(inner_index, ledgerSeq[inner_index], "proposal", 0, ok, TRUE)
        /\ IF ok
           THEN /\ proposal' = [created |-> TRUE,
                                execution_hash |-> CanonicalHash(FirstScript(files)),
                                expiry |-> now + VotingDurationSecs,
                                votes |-> {}]
                /\ approvedHash' = CanonicalHash(FirstScript(files))
                /\ pc' = "vote"
                /\ UNCHANGED << outcome, abortStep >>
           ELSE /\ Abort("SubmissionError", 0)
                /\ UNCHANGED << proposal, approvedHash >>
    /\ UNCHANGED << test, n, files, cur, i, inner_index, localSeq, now, sleepStart,
                    executed, resp, readHash, verifiedBytes, addHashCalls, tampers >>

\* A variant of VoteCast in which the run goes on whatever became of
\* the vote.
VoteCastUnchecked(ok) == TRUE
\* Whether the run goes on after cli.vote: the run waits for every
\* required vote, so it goes on only when the vote was accepted.
VoteCast(ok) == ok

\* A variant of RecordVote in which a vote replaces the votes before it.
RecordVoteLast(p, pool) == [p EXCEPT !.votes = {pool}]
\* The ledger's record of proposal p after a vote for stake pool pool: one
\* vote per pool, however often and in whatever order the votes arrive.
RecordVote(p, pool) == [p EXCEPT !.votes = @ \cup {pool}]

\* cli.vote(validator_cli_index, 0, true, false, vec![pool_address]).await;
\* i = i + 1.  The ledger refuses a vote when the window is over; a vote
\* that was not cast ends the run.
Vote ==
    /\ pc = "vote"
    /\ \E up \in BOOLEAN :
        LET ok == up /\ proposal.created /\ now < proposal.expiry
        IN  /\ Submit(inner_index, ledgerSeq[inner_index], "vote", 0, ok, TRUE)
            /\ proposal' = IF ok THEN RecordVote(proposal, i) ELSE proposal
            /\ IF VoteCast(ok)
               THEN /\ i' = i + 1
                    /\ pc' = IF i + 1 < NumVoters THEN "setup_voter" ELSE "sleep"
                    /\ UNCHANGED << outcome, abortStep >>
               ELSE /\ Abort("SubmissionError", 0)
                    /\ UNCHANGED i
    /\ UNCHANGED << test, n, files, cur, inner_index, localSeq,
                    now, sleepStart, approvedHash, executed, resp, readHash,
                    verifiedBytes, addHashCalls, tampers >>

\* ------------------------------------------------------------ lines 281-282
\* thread::sleep(Duration::from_secs(30)) is called ...
Sleep ==
    /\ pc = "sleep"
    /\ sleepStart' = now
    /\ pc' = "sleeping"
    /\ UNCHANGED << test, outcome, abortStep, n, files, cur, i, inner_index,
                    localSeq, ledgerSeq, txs, now, proposal, approvedHash, executed,
                    resp, readHash, verifiedBytes, addHashCalls, tampers >>

\* ... and returns.
Wake ==
    /\ pc = "sleeping"
    /\ SleepElapsed
    /\ pc' = "verify"
    /\ UNCHANGED << test, outcome, abortStep, n, files, cur, i, inner_index,
                    localSeq, ledgerSeq, txs, now, sleepStart, proposal,
                    approvedHash, executed, resp, readHash, verifiedBytes,
                    addHashCalls, tampers >>

\* -------------------------------------------- the step loop: lines 284-319
\* cli.verify_proposal(0, path).await.unwrap(): an error of the call (the
\* ledger cannot be read) panics.
Verify ==
    /\ pc = "verify"
    /\ \E ok \in BOOLEAN :
        IF ok
        THEN /\ resp' = VerifyProposal(files[cur], approvedHash)
             /\ verifiedBytes' = [verifiedBytes EXCEPT ![cur] = files[cur]]
             /\ pc' = "assert_verified"
             /\ UNCHANGED << outcome, abortStep >>
        ELSE /\ Abort("NetworkError", cur)
             /\ UNCHANGED << resp, verifiedBytes >>
    /\ UNCHANGED << test, n, files, cur, i, inner_index, localSeq, ledgerSeq, txs,
                    now, sleepStart, proposal, approvedHash, executed, readHash,
                    addHashCalls, tampers >>

\* assert!(verify_proposal_response.verified);
CheckVerified ==
    /\ pc = "assert_verified"
    /\ IF AssertVerified(resp)
       THEN /\ pc' = IF add_approved_execution_hash THEN "add_hash" ELSE "read_hash"
            /\ UNCHANGED << outcome, abortStep >>
       ELSE Abort("HashMismatch", cur)
    /\ UNCHANGED << test, n, files, cur, i, inner_index, localSeq, ledgerSeq, txs,
                    now, sleepStart, proposal, approvedHash, executed, resp,
                    readHash, verifiedBytes, addHashCalls, tampers >>

\* if add_approved_execution_hash { add_approved_script_hash_script() }: the
\* governance entry function of that name (re)writes the approved hash of
\* the proposal from the proposal's current execution hash.
AddApprovedScriptHash ==
    /\ pc = "add_hash"
    /\ addHashCalls' = addHashCalls + 1
    /\ approvedHash' = proposal.execution_hash
    /\ pc' = "read_hash"
    /\ UNCHANGED << test, outcome, abortStep, n, files, cur, i, inner_index,
                    localSeq, ledgerSeq, txs, now, sleepStart, proposal, executed,
                    resp, readHash, verifiedBytes, tampers >>

\* public_info.get_approved_execution_hash_at_aptos_governance(0).await
ReadApprovedHash ==
    /\ pc = "read_hash"
    /\ readHash' = approvedHash
    /\ pc' = "assert_eq"
    /\ UNCHANGED << test, outcome, abortStep, n, files, cur, i, inner_index,
                    localSeq, ledgerSeq, txs, now, sleepStart, proposal,
                    approvedHash, executed, resp, verifiedBytes, addHashCalls,
                    tampers >>

\* assert_eq!(verify_proposal_response.computed_hash,
\*            hex::encode(approved_execution_hash));
CheckHashEq ==
    /\ pc = "assert_eq"
    /\ IF resp.computed_hash = HexEncode(readHash)
       THEN pc' = "run_step" /\ UNCHANGED << outcome, abortStep >>
       ELSE Abort("HashMismatch", cur)
    /\ UNCHANGED << test, n, files, cur, i, inner_index, localSeq, ledgerSeq, txs,
                    now, sleepStart, proposal, approvedHash, executed, resp,
                    readHash, verifiedBytes, addHashCalls, tampers >>

\* A variant of StepSender that reads the binding of the while loop's body.
StepSenderInner == inner_index
\* The CLI account named at line 312: there the binding of line 245 is in
\* scope, the let of line 249 having ended with the loop body.
StepSender == validator_cli_index

\* cli.run_script_with_script_path(validator_cli_index, path, ..).await
\* .unwrap(): the script now at the path is sent from CLI account
\* validator_cli_index; an executed step makes the ledger approve the
\* hash the script names as the next one (none after the last step).
RunStep ==
    /\ pc = "run_step"
    /\ \E up \in BOOLEAN :
        LET ok == up /\ LedgerAccepts(files[cur])
        IN  /\ Submit(StepSender, ledgerSeq[StepSender], "step",
                      cur, ok, resp.verified)
            /\ IF ok
               THEN /\ executed' = Append(executed, cur)
                    /\ approvedHash' = files[cur][2]
                    /\ proposal' = [proposal EXCEPT !.execution_hash = files[cur][2]]
                    /\ resp' = NoResp
                    /\ cur' = cur + 1
                    /\ pc' = IF cur = n THEN "done" ELSE "verify"
                    /\ outcome' = IF cur = n THEN "Completed" ELSE outcome
                    /\ UNCHANGED abortStep
               ELSE /\ AfterFailedStep(cur)
                    /\ UNCHANGED << executed, approvedHash, proposal, resp >>
    /\ UNCHANGED << test, n, files, i, inner_index, localSeq, now, sleepStart,
                    readHash, verifiedBytes, addHashCalls, tampers >>

\* -------------------------------------------------------- environment
\* Time passes while the test waits for the ledger or sleeps.  Only the
\* time since the proposal was created matters, so the clock starts there.
TimedPcs == {"create_proposal", "vote", "sleep", "sleeping", "verify"}

Tick ==
    /\ pc \in TimedPcs
    /\ \/ now + TickSecs <= MaxTime
       \/ pc = "sleeping" /\ ~SleepElapsed
    /\ now' = now + TickSecs
    /\ UNCHANGED << test, pc, outcome, abortStep, n, files, cur, i, inner_index,
                    localSeq, ledgerSeq, txs, sleepStart, proposal, approvedHash,
                    executed, resp, readHash, verifiedBytes, addHashCalls, tampers >>

\* The value a substituted byte takes: another byte value.
Flip(b) == (b + 1) % PayloadVals

\* Scenario C of the design: after the proposal is created, one byte of a
\* script that has not executed yet is substituted on disk.
Tamper ==
    /\ ~Terminal
    /\ IsMulti
    /\ proposal.created
    /\ tampers < MaxTamper
    /\ \E k \in 1 .. n, pos \in 1 .. 2 :
        /\ \A e \in 1 .. Len(executed) : executed[e] # k
        /\ files' = [files EXCEPT ![k][pos] = Flip(@)]
    /\ tampers' = tampers + 1
    /\ UNCHANGED << test, pc, outcome, abortStep, n, cur, i, inner_index, localSeq,
                    ledgerSeq, txs, now, sleepStart, proposal, approvedHash,
                    executed, resp, readHash, verifiedBytes, addHashCalls >>

Next ==
    \/ GasScript
    \/ Generate
    \/ RunScript
    \/ PublishPackage
    \/ CheckCreateMintTransfer
    \/ SetupVoter
    \/ InitializeStakeOwner
    \/ IncreaseLockup
    \/ CreateProposal
    \/ Vote
    \/ Sleep
    \/ Wake
    \/ Verify
    \/ CheckVerified
    \/ AddApprovedScriptHash
    \/ ReadApprovedHash
    \/ CheckHashEq
    \/ RunStep
    \/ Tick
    \/ Tamper

Spec == Init /\ [][Next]_vars

\* ------------------------------------------------------------ claims
\* The transactions that carry an upgrade script, in submission order.
StepTxs == SelectSeq(txs, LAMBDA t : t.kind \in {"step", "script"})

NextToExecute == Len(executed) + 1

\* C1: the steps are submitted in index order, each only after every
\* earlier step was submitted successfully; the ledger executes them in
\* that order; and in every state a step other than the next one is
\* refused, by verification and by the ledger, and has not executed.
C1_StepsInIndexOrder ==
    /\ \A j \in 1 .. Len(StepTxs) :
        /\ StepTxs[j].step = j
        /\ j < Len(StepTxs) => StepTxs[j].ok
    /\ \A j \in 1 .. Len(executed) : executed[j] = j
    /\ Len(executed) = Cardinality({j \in 1 .. Len(StepTxs) : StepTxs[j].ok})
    /\ IsMulti =>
        \A k \in 1 .. n :
            k # NextToExecute =>
                /\ ~VerifyProposal(Orig(k), approvedHash).verified
                /\ ~LedgerAccepts(Orig(k))

\* Two steps have executed in order, a third was sent and refused by the
\* ledger, and verification refuses the step that already ran.
C1_Witness ==
    /\ IsMulti
    /\ executed = << 1, 2 >>
    /\ Len(StepTxs) = 3
    /\ ~StepTxs[3].ok
    /\ ~VerifyProposal(Orig(1), approvedHash).verified

HashVals ==
    LET orig == Scripts(n, IsMulti)
    IN  {0, approvedHash} \cup {CanonicalHash(files[k]) : k \in 1 .. n}
            \cup {CanonicalHash(orig[k]) : k \in 1 .. n}

C4_SecondStepOnlyAfterFirst ==
    (IsMulti /\ n >= 2) =>
        /\ (Len(executed) = 0 /\ files[2] = Orig(2)) =>
            ~VerifyProposal(files[2], approvedHash).verified
        /\ Len(executed) = 1 =>
            /\ approvedHash = CanonicalHash(Orig(2))
            /\ files[2] = Orig(2) => VerifyProposal(files[2], approvedHash).verified
            /\ (pc = "assert_verified" /\ verifiedBytes[2] = Orig(2)) => resp.verified

\* A two-step run: step 0 has executed and verify returned true for step 1.
C4_Witness ==
    /\ IsMulti
    /\ n = 2
    /\ executed = << 1 >>
    /\ cur = 2
    /\ pc = "assert_verified"
    /\ resp.verified

\* The positions of the for loop over the scripts, from the verify call on.
VerifyingPcs ==
    {"verify", "assert_verified", "add_hash", "read_hash", "assert_eq", "run_step"}

\* C5: the run is at no position of the step loop, and has made no verify
\* call, before the voting duration has passed since the sleep began.
C5_NoVerifyBeforeWindowEnds ==
    IsMulti =>
        /\ pc \in VerifyingPcs => (sleepStart >= 0 /\ now >= sleepStart + VotingDurationSecs)
        /\ \A k \in 1 .. n :
            verifiedBytes[k] # <<>> => (sleepStart >= 0 /\ now >= sleepStart + VotingDurationSecs)
        /\ (pc \in {"setup_voter", "stake_owner", "lockup", "create_proposal", "vote",
                    "sleep", "sleeping"})
            => \A k \in 1 .. n : verifiedBytes[k] = <<>>

\* Both votes landed, and the first verify call is about to be made
\* exactly when the window ends.
C5_Witness ==
    /\ IsMulti
    /\ pc = "verify"
    /\ cur = 1
    /\ Cardinality(proposal.votes) = NumVoters
    /\ now = sleepStart + VotingDurationSecs

\* The transactions of one account, in submission order.
TxsOf(a) == SelectSeq(txs, LAMBDA t : t.sender = a)

\* The sequence number the root account started from.
Seq0 == IF TxsOf(Root) = <<>> THEN localSeq ELSE TxsOf(Root)[1].seq

\* C6: the local sequence number of the root account is its start value
\* plus the number of its commands that succeeded: one increment per
\* success, none for a failure, so after a failed command the next number
\* is the one that command used.
C6_OneIncrementPerSuccess ==
    LET r == TxsOf(Root)
    IN  /\ localSeq = Seq0 + Cardinality({j \in 1 .. Len(r) : r[j].ok})
        /\ r # <<>> =>
            localSeq = IF r[Len(r)].ok THEN r[Len(r)].seq + 1 ELSE r[Len(r)].seq

\* test_upgrade_flow: the gas script and two upgrade scripts succeeded, the
\* third run-script failed.
C6_Witness ==
    LET r == TxsOf(Root)
    IN  /\ test = "flow"
        /\ Len(r) = 4
        /\ r[3].ok
        /\ ~r[4].ok
        /\ r[4].kind = "script"
        /\ pc = "aborted"
        /\ localSeq = Seq0 + 3

\* C7: for every account the sequence numbers of its submitted
\* transactions are consecutive: strictly increasing, no gap, no duplicate.
C7_SequenceNumbersConsecutive ==
    \A a \in Accounts :
        LET r == TxsOf(a)
        IN  \A j \in 1 .. Len(r) - 1 : r[j + 1].seq = r[j].seq + 1

\* test_upgrade_flow ran to its end: the root account sent the gas script,
\* three upgrade scripts, the package and the transfer.
C7_Witness ==
    /\ test = "flow"
    /\ pc = "done"
    /\ Len(TxsOf(Root)) = 6

\* C8: the executed steps are a prefix of the ScriptSet; no step
\* transaction follows a failed one and none is sent for an unverified
\* step; a run aborted at step k has executed exactly the steps before k
\* and sent nothing for a later step; and an aborted run sends nothing more.
C8_AbortNeverSkips ==
    /\ [](/\ \A j \in 1 .. Len(executed) : executed[j] = j
          /\ \A j \in 1 .. Len(StepTxs) - 1 : StepTxs[j].ok
          /\ \A j \in 1 .. Len(StepTxs) : StepTxs[j].verified
          /\ outcome \in {"HashMismatch", "SubmissionError", "NetworkError"} => pc = "aborted"
          /\ (pc = "aborted" /\ abortStep >= 1) =>
                /\ Len(executed) = abortStep - 1
                /\ \A j \in 1 .. Len(StepTxs) :
                    /\ StepTxs[j].step <= abortStep
                    /\ StepTxs[j].step = abortStep =>
                        (~StepTxs[j].ok /\ outcome = "SubmissionError"))
    /\ [][pc = "aborted" => (pc' = "aborted" /\ txs' = txs /\ executed' = executed)]_vars

\* A three-step run aborted at its second step, by a failed verification,
\* with the third step never sent.
C8_Witness ==
    /\ IsMulti
    /\ n = 3
    /\ pc = "aborted"
    /\ outcome = "HashMismatch"
    /\ abortStep = 2
    /\ executed = << 1 >>
    /\ Len(StepTxs) = 1

\* C9: the approved execution hash is absent before the proposal exists,
\* then the hash of the next step to execute, and absent again once the
\* last step has executed.
C9_ApprovedHashIsNextStep ==
    approvedHash =
        IF ~proposal.created \/ Len(executed) >= n THEN 0
        ELSE CanonicalHash(Orig(NextToExecute))

\* The multi-step run completed three steps; the approved hash is empty.
C9_Witness ==
    /\ IsMulti
    /\ n = 3
    /\ executed = << 1, 2, 3 >>
    /\ approvedHash = 0
    /\ pc = "done"

\* C10: the approved hash changes only when the proposal is created or a
\* verified step executes, and the orchestrator never calls an operation
\* that adds an approved hash.
C10_OrchestratorOnlyReads ==
    [][/\ approvedHash' # approvedHash =>
            (proposal'.created # proposal.created \/ executed' # executed)
       /\ addHashCalls' = addHashCalls]_vars

\* ------------------------------------------------------------------ C11
\* The state of the run as the design names it, read off the position in
\* the test function.  Steps are counted from 1.
Phase ==
    IF pc = "done" THEN << "Completed", 0 >>
    ELSE IF pc = "aborted" THEN << "Aborted", 0 >>
    ELSE IF pc \in VerifyingPcs \ {"run_step"} THEN << "Verifying", cur >>
    ELSE IF pc \in {"run_step", "run_script"} THEN << "Executing", cur >>
    ELSE IF pc \in {"publish", "check"} THEN << "Publishing", 0 >>
    ELSE IF ~proposal.created THEN << "Created", 0 >>
    ELSE IF pc = "vote" /\ i = 0 THEN << "ProposalSubmitted", 0 >>
    ELSE << "Voting", 0 >>

\* One step of the multi-step run moves along Created, ProposalSubmitted,
\* Voting, Verifying(k), Executing(k), Verifying(k+1), .., Completed, or
\* into Aborted from a state named in abortFrom; Completed and Aborted
\* are left no more.  A run that aborts from a Verifying state reports
\* HashMismatch or NetworkError, from any other state SubmissionError.
PhaseStep(abortFrom) ==
    LET p == Phase
        q == Phase'
    IN  IsMulti =>
          /\ \/ q = p
             \/ p[1] = "Created" /\ q[1] = "ProposalSubmitted"
             \/ p[1] = "ProposalSubmitted" /\ q[1] = "Voting"
             \/ p[1] = "Voting" /\ q = << "Verifying", 1 >>
             \/ p[1] = "Verifying" /\ q = << "Executing", p[2] >>
             \/ /\ p[1] = "Executing"
                /\ q = << "Verifying", p[2] + 1 >>
                /\ executed' = Append(executed, p[2])
             \/ /\ p[1] = "Executing"
                /\ q[1] = "Completed"
                /\ p[2] = n
                /\ executed' = Append(executed, n)
             \/ q[1] = "Aborted" /\ p[1] \in abortFrom
          /\ (q[1] = "Aborted" /\ p[1] # "Aborted") =>
                outcome' \in (IF p[1] = "Verifying"
                              THEN {"HashMismatch", "NetworkError"}
                              ELSE {"SubmissionError"})

TxsOfKind(kind) == SelectSeq(txs, LAMBDA t : t.kind = kind)

\* The states of scenario A, in order (steps counted from 1).
ScenarioA ==
    << << "Created", 0 >>, << "ProposalSubmitted", 0 >>, << "Voting", 0 >>,
       << "Verifying", 1 >>, << "Executing", 1 >>, << "Completed", 0 >> >>

\* C12 as stated: the gas-update script goes through a proposal: when it
\* is handed to the ledger, a proposal was submitted and voted on before.
C12_GasScriptUnderProposal ==
    \A j \in 1 .. Len(txs) :
        txs[j].kind = "gas" =>
            \E a \in 1 .. j - 1 : \E b \in a + 1 .. j - 1 :
                txs[a].kind = "proposal" /\ txs[b].kind = "vote"

\* C12 amended: the gas-update script is the run's first transaction,
\* sent by the root account with no proposal, vote or verification; a
\* multi-step run over a ScriptSet of one generated script moves through
\* exactly Created, ProposalSubmitted, Voting, Verifying(1), Executing(1),
\* Completed in this order (or aborts), and a completed run has one
\* proposal, every vote, one verified and executed step and none pending.
C12_ScenarioA ==
    /\ [](/\ \A j \in 1 .. Len(txs) :
               txs[j].kind = "gas" => j = 1 /\ txs[j].sender = Root
          /\ (TxsOfKind("gas") = <<>> \/ ~TxsOfKind("gas")[1].ok) =>
               (~proposal.created /\ Len(txs) <= 1 /\ n = 0)
          /\ (IsMulti /\ n = 1 /\ pc = "done") =>
               /\ Len(TxsOfKind("proposal")) = 1
               /\ Cardinality(proposal.votes) = NumVoters
               /\ verifiedBytes[1] = files[1]
               /\ executed = << 1 >>
               /\ Len(StepTxs) = 1
               /\ cur = n + 1
               /\ approvedHash = 0)
    /\ [][(IsMulti /\ n' = 1) =>
            \E k \in 1 .. Len(ScenarioA) :
                /\ Phase = ScenarioA[k]
                /\ \/ Phase' = Phase
                   \/ k < Len(ScenarioA) /\ Phase' = ScenarioA[k + 1]
                   \/ k < Len(ScenarioA) /\ Phase'[1] = "Aborted"]_vars

\* A multi-step run over one script completed, after the gas-update script
\* had been run directly.
C12_Witness ==
    /\ IsMulti
    /\ n = 1
    /\ pc = "done"
    /\ txs[1].kind = "gas"
    /\ txs[1].ok
    /\ executed = << 1 >>

\* ------------------------------------------------------------------ C13
\* C13: the multi-step run submits at most one proposal transaction, in
\* the first iteration of the voting loop; past the voting loop it has
\* submitted exactly one; until a step is executed the proposal's
\* execution hash is the hash of the first script of the sorted set, and
\* no proposal follows an executed step.
C13_OneProposalForFirstStep ==
    LET ps == TxsOfKind("proposal")
    IN  /\ Len(ps) <= 1
        /\ \A j \in 1 .. Len(ps) : ps[j].sender = NumVoters + 0
        /\ proposal.created <=> (ps # <<>> /\ ps[1].ok)
        /\ (proposal.created /\ executed = <<>>) =>
               proposal.execution_hash = CanonicalHash(Orig(1))
        /\ (IsMulti /\ pc \in {"sleep", "sleeping", "done"} \cup VerifyingPcs) =>
               Len(ps) = 1
        /\ \A j \in 1 .. Len(txs) :
               txs[j].kind = "step" => \A k \in j .. Len(txs) : txs[k].kind # "proposal"

\* A run of three steps completed on one proposal.
C13_Witness ==
    /\ IsMulti
    /\ n = 3
    /\ pc = "done"
    /\ Len(TxsOfKind("proposal")) = 1
    /\ Len(executed) = 3

\* ------------------------------------------------------------------ C14
\* The stake pools that vote: the pool of account i in iteration i.
Pools == 0 .. (NumVoters - 1)

PanicHashes ==
    IF pc = "aborted" /\ outcome = "HashMismatch"
    THEN IF ~AssertVerified(resp)
         THEN {}
         ELSE {resp.computed_hash, HexEncode(readHash)}
    ELSE {}

\* A failed verify call is told apart from a verification that said no:
\* the run that reports NetworkError holds no verification result for the
\* step, and a result with verified = false is followed by nothing but the
\* abort with HashMismatch.
ReadFailureIsNotMismatch ==
    /\ outcome = "NetworkError" =>
          /\ pc = "aborted"
          /\ resp = NoResp
          /\ verifiedBytes[abortStep] = <<>>
    /\ (resp # NoResp /\ ~resp.verified) =>
          /\ pc \in {"assert_verified", "aborted"}
          /\ pc = "aborted" => outcome = "HashMismatch"
    /\ outcome = "HashMismatch" =>
          /\ pc = "aborted"
          /\ resp # NoResp
          /\ resp.computed_hash # resp.onchain_hash
          /\ Len(SelectSeq(txs, LAMBDA t : t.kind = "step" /\ t.step = abortStep)) = 0

\* C15: a failed ledger read during verification is reported as a
\* NetworkError and never as a HashMismatch; a hash mismatch is not
\* retried and always aborts the run, and the abort shows both hash
\* values, the computed one and the on-chain one.
C15_MismatchAbortsWithBothHashes ==
    /\ ReadFailureIsNotMismatch
    /\ outcome = "HashMismatch" =>
          {resp.computed_hash, resp.onchain_hash} \subseteq PanicHashes

\* ------------------------------------------------------------------ C16
\* The transactions that carried the script of step k.
TxsOfStep(k) == SelectSeq(StepTxs, LAMBDA t : t.step = k)

\* C16: in one run the script of each step is handed to the ledger at most
\* once; a step transaction that failed is the last one of the run, which
\* has aborted at that step: no step is sent a second time, with or
\* without a new verification.
C16_NoStepRetried ==
    /\ \A k \in 1 .. n : Len(TxsOfStep(k)) <= 1
    /\ \A j \in 1 .. Len(StepTxs) :
          ~StepTxs[j].ok =>
              /\ j = Len(StepTxs)
              /\ pc = "aborted"
              /\ outcome = "SubmissionError"
              /\ abortStep = StepTxs[j].step

\* The ledger refused the second step of a multi-step run: the run ended
\* with that one submission.
C16_Witness ==
    /\ IsMulti
    /\ pc = "aborted"
    /\ abortStep = 2
    /\ Len(TxsOfStep(2)) = 1
    /\ ~TxsOfStep(2)[1].ok

\* ------------------------------------------------------------------ C17
\* C17: from the passed assert!(verified) of a step to the submission of
\* that step the ledger's approved hash is the one the verification saw
\* and computed; the hash read at line 298 is that same hash, and the
\* step is submitted only with read hash and computed hash equal.
C17_ReadHashIsVerifiedHash ==
    IsMulti =>
      /\ pc \in {"add_hash", "read_hash", "assert_eq", "run_step"} =>
            /\ resp.verified
            /\ resp.onchain_hash = HexEncode(approvedHash)
            /\ resp.computed_hash = HexEncode(approvedHash)
      /\ pc \in {"assert_eq", "run_step"} => readHash = approvedHash
      /\ pc = "run_step" => resp.computed_hash = HexEncode(readHash)
      /\ \A j \in 1 .. Len(StepTxs) : StepTxs[j].verified

\* The second step is about to be submitted, its hash read and compared.
C17_Witness ==
    /\ IsMulti
    /\ pc = "run_step"
    /\ cur = 2
    /\ readHash = CanonicalHash(files[2])
    /\ resp.computed_hash = HexEncode(readHash)

\* ------------------------------------------------------------------ C18
\* test_upgrade_flow over release configurations that yield up to
\* MaxSortSteps scripts: the scripts are generated, their paths sorted,
\* and each is run in the sorted order.
SortInit == Init /\ test = "flow"

SortGenerate == GenerateUpTo(MaxSortSteps)

SortNext ==
    \/ GasScript
    \/ SortGenerate
    \/ RunScript
    \/ PublishPackage
    \/ CheckCreateMintTransfer

SortSpec == SortInit /\ [][SortNext]_vars

\* C18: the order of execution that sorting the paths gives is the order
\* of generation: the j-th script run is the j-th script the generator
\* produced, for every number of scripts.
C18_SortedOrderIsGeneratorOrder ==
    \A j \in 1 .. Len(executed) :
        files[executed[j]] = GenScript(j, n, IsMulti)

\* ------------------------------------------------------------------ C19
\* One statement of the test function.  The function is sequential code:
\* when every call it makes returns, its next statement is executed.
ProgramStep ==
    \/ GasScript
    \/ Generate
    \/ RunScript
    \/ PublishPackage
    \/ CheckCreateMintTransfer
    \/ SetupVoter
    \/ InitializeStakeOwner
    \/ IncreaseLockup
    \/ CreateProposal
    \/ Vote
    \/ Sleep
    \/ Wake
    \/ Verify
    \/ CheckVerified
    \/ AddApprovedScriptHash
    \/ ReadApprovedHash
    \/ CheckHashEq
    \/ RunStep

\* The runs in which every call returns and the clock goes on while the
\* test sleeps.
FairSpec == Init /\ [][Next]_vars /\ WF_vars(ProgramStep) /\ WF_vars(Tick)

\* C19: the run ends, completed or aborted; and it is completed only with
\* every one of the n scripts executed exactly once, in the multi-step
\* test each after a verification that said yes.
C19_Terminates ==
    /\ <>Terminal
    /\ [](pc = "done" =>
            /\ outcome = "Completed"
            /\ n >= 1
            /\ executed = [k \in 1 .. n |-> k]
            /\ \A k \in 1 .. n :
                  /\ Len(TxsOfStep(k)) = 1
                  /\ TxsOfStep(k)[1].ok
                  /\ IsMulti => (verifiedBytes[k] # <<>> /\ TxsOfStep(k)[1].verified))

\* A multi-step run of two steps completed after the sleep.
C19_Witness ==
    /\ IsMulti
    /\ pc = "done"
    /\ n = 2
    /\ executed = << 1, 2 >>
    /\ now >= sleepStart + SleepSecs

\* ------------------------------------------------------------------ C20
\* The CLI accounts init_validator_account creates inside the voting loop.
LoopAccounts == NumVoters .. (2 * NumVoters - 1)

\* C20: in the multi-step run every step transaction is sent from the one
\* account whose index was fixed before the voting loop, index 0; the
\* proposal and every vote are sent from accounts created inside the loop,
\* and none of those accounts sends a step transaction.
C20_StepsFromOneAccount ==
    IsMulti =>
      /\ \A j \in 1 .. Len(StepTxs) :
            /\ StepTxs[j].sender = validator_cli_index
            /\ StepTxs[j].sender = 0
      /\ \A j \in 1 .. Len(txs) :
            /\ txs[j].kind \in {"proposal", "vote"} => txs[j].sender \in LoopAccounts
            /\ txs[j].sender \in LoopAccounts => txs[j].kind \in {"proposal", "vote"}
      /\ inner_index # -1 => inner_index \in LoopAccounts

\* Both loop accounts have voted and two steps were sent from account 0.
C20_Witness ==
    /\ IsMulti
    /\ inner_index = 2 * NumVoters - 1
    /\ Len(TxsOfKind("vote")) = NumVoters
    /\ Len(StepTxs) = 2
    /\ StepTxs[2].sender = 0
====
